---------------------------- MODULE Spec2Model ----------------------------
(***************************************************************************)
(* Model of src/app.py: the Streamlit front end (main), the orchestrator   *)
(* (AIProposalSystem), the agent and task factories and the three search   *)
(* tools (Tools).                                                          *)
(*                                                                         *)
(* One Streamlit server process serves several browser sessions; each      *)
(* session re-executes main() on its own script thread, and all threads    *)
(* share the process environment (os.environ), the wall clock and the      *)
(* working directory.  A session's position in main() is pc[s].            *)
(*                                                                         *)
(* crew.kickoff() (line 227) is the third-party framework's sequential     *)
(* process: it executes the tasks of the list given at line 222 one after  *)
(* the other and returns the output of the last one.  The language model   *)
(* and the HTTP endpoints are inputs: their answers and their failures are *)
(* drawn from small sets.                                                  *)
(***************************************************************************)
EXTENDS Naturals, Sequences, FiniteSets

VARIABLES
    env,      \* os.environ: variable name -> value (NoValue when unset)
    now,      \* the local wall clock, in seconds
    files,    \* working directory: path -> content (a sequence of text tokens)
    saved,    \* history of the returns of generate_proposal (one record per run)
    runs,     \* number of runs triggered so far
    pc,       \* per session: position of the script thread in main()
    form,     \* per session: widget values of the current script run
    ui,       \* per session: what the page shows (message, state of the button)
    sys,      \* per session: the AIProposalSystem built at line 290
    idx,      \* per session: index in the crew's task list of the running task
    calls,    \* per session: tool calls made by the running task
    toolRet,  \* per session: the last tool call of the running task and its return
    log,      \* per session: start/end events of the tasks of the current run
    result,   \* per session: what crew.kickoff() returned (line 227)
    started,  \* per session: clock reading when the run was triggered
    stamp,    \* per session: clock reading taken at line 230
    fname,    \* per session: filename computed at line 231
    opened,   \* per session: the run has opened (created or truncated) its file
    ret,      \* per session: what generate_proposal returned (line 236)
    raised    \* per session: index of the task that raised in the last run (0: none)

vars == <<env, now, files, saved, runs, pc, form, ui, sys, idx, calls, toolRet,
          log, result, started, stamp, fname, opened, ret, raised>>

---------------------------------------------------------------------------
(* Bounds of the model *)

MaxRuns == 2
MaxClock == 1
MaxToolCalls == 1

Sessions == {"s1", "s2"}

---------------------------------------------------------------------------
(* Values *)

NoValue == "<unset>"
NoPath == <<>>
NoText == <<>>
NoTool == [tool |-> "none"]
NoStamp == MaxClock + 100

Fields == {"openai", "tavily", "kaggle"}

\* The credentials of two users; a form holds one user's credentials, any of
\* them possibly left empty.
Users == {"A", "B"}
CredOf(u) ==
    IF u = "A" THEN [openai |-> "oA", tavily |-> "tA", kaggle |-> "kA"]
               ELSE [openai |-> "oB", tavily |-> "tB", kaggle |-> "kB"]
Blank(keys, missing) == [f \in Fields |-> IF f = missing THEN "" ELSE keys[f]]
NoKeys == [f \in Fields |-> ""]
KeyInputs ==
    {CredOf(u) : u \in Users} \cup {Blank(CredOf("A"), f) : f \in Fields} \cup {NoKeys}

\* Company names as typed, token by token ("" is the empty sequence).
Companies == {<<>>, <<"Acme">>, <<"Acme", "_", "20240101">>}

Queries == {"q1", "q2"}
Outcomes == {"ok", "transport", "decode"}


---------------------------------------------------------------------------
(* Pure functions *)

\* os.getenv(name): the value in the process environment, None when unset.
Getenv(name) == env[name]

\* Variant: any(...) in place of all(...).
ApiKeysValidAny(keys) == \E f \in Fields : keys[f] # ""

\* all([openai_key, tavily_key, kaggle_key]): every string is non-empty.
ApiKeysValid(keys) == \A f \in Fields : keys[f] # ""

\* st.button(..., disabled=d): True only for a click on an enabled button.
Button(click, disabled) == click /\ ~disabled

\* Variant: the resource task listed before the market task.
CrewTasksSwapped == <<"research", "resource", "market", "proposal">>

\* The task list and the agent of each task, in the order of line 222.
CrewTasks == <<"research", "market", "resource", "proposal">>

\* The tools of the agent that each task is bound to.
AgentTools(task) ==
    CASE task = "research" -> {"tavily"}
      [] task = "market"   -> {"tavily"}
      [] task = "resource" -> {"kaggle", "huggingface"}
      [] task = "proposal" -> {}

\* The texts the language model may answer a task with.
ModelTexts(task) ==
    CASE task = "research" -> {<<"R">>}
      [] task = "market"   -> {<<"M">>}
      [] task = "resource" -> {<<"Res">>}
      [] task = "proposal" -> {<<"P1">>, <<"P2", "P3">>}

\* str(e) of the exception a failed call raises.
ErrMsg(outcome) ==
    IF outcome = "transport" THEN "connection failed" ELSE "invalid JSON"

\* The request a search sends for query q, and json.dumps of the decoded
\* response to it.
Response(q) == IF q = "q1" THEN "hits" ELSE "no hits"
JsonDumps(response) == <<"json", response>>

\* Tools.tavily_search: the client holds the key read at construction.
tavily_search(key, q, outcome) ==
    [token |-> key, raised |-> FALSE,
     value |-> IF outcome = "ok" THEN JsonDumps(Response(q))
               ELSE <<"Error performing search: ", ErrMsg(outcome)>>]

\* Variant: search_kaggle without its try/except.
search_kaggle_unguarded(q, outcome) ==
    [token |-> Getenv("KAGGLE_API_TOKEN"), raised |-> outcome # "ok",
     value |-> IF outcome = "ok" THEN JsonDumps(Response(q)) ELSE <<>>]

\* Tools.search_kaggle: the bearer token is read from the environment at
\* each call.
search_kaggle(q, outcome) ==
    [token |-> Getenv("KAGGLE_API_TOKEN"), raised |-> FALSE,
     value |-> IF outcome = "ok" THEN JsonDumps(Response(q))
               ELSE <<"Error searching Kaggle: ", ErrMsg(outcome)>>]

\* Tools.search_huggingface: no authentication.
search_huggingface(q, outcome) ==
    [token |-> NoValue, raised |-> FALSE,
     value |-> IF outcome = "ok" THEN JsonDumps(Response(q))
               ELSE <<"Error searching HuggingFace: ", ErrMsg(outcome)>>]

Digit == <<"0", "1", "2", "3", "4", "5", "6", "7", "8", "9">>

\* Variant: the format "%Y%m%d_%H%M", without the seconds.
StrftimeMinutes(t) == <<"20240101", "_", "0000">>

\* datetime.now().strftime("%Y%m%d_%H%M%S") for a reading t of the wall
\* clock, t seconds into 2024-01-01 00:00: fixed width, zero padded.
Strftime(t) ==
    <<"20240101", "_", "0000", Digit[((t \div 10) % 10) + 1], Digit[(t % 10) + 1]>>

\* f"ai_proposal_{company_name}_{timestamp}.md"
Filename(company, timestamp) ==
    <<"ai_proposal_">> \o company \o <<"_">> \o timestamp \o <<".md">>

\* The content of a file after a handle opened with mode "w" writes text at
\* its own offset 0 and is closed: what another handle wrote beyond the end
\* of text stays.
Overlay(text, old) ==
    IF Len(old) > Len(text) THEN text \o SubSeq(old, Len(text) + 1, Len(old))
    ELSE text

\* open(path, "w"): the file is created, or truncated when it exists.
Truncated(path) ==
    [p \in (DOMAIN files) \cup {path} |-> IF p = path THEN NoText ELSE files[p]]

NoSystem == [llm |-> NoValue, tavily |-> NoValue]
NoForm == [keys |-> NoKeys, company |-> <<>>]

---------------------------------------------------------------------------
(* Initial state: the server is up, no session has run the script yet *)

Init ==
    /\ env = [n \in {"OPENAI_API_KEY", "TAVILY_API_KEY", "KAGGLE_API_TOKEN"} |-> NoValue]
    /\ now = 0
    /\ files = [p \in {} |-> NoText]
    /\ saved = {}
    /\ runs = 0
    /\ pc = [s \in Sessions |-> "idle"]
    /\ form = [s \in Sessions |->
                NoForm]
    /\ ui = [s \in Sessions |-> [kind |-> "blank", button |-> "none", msg |-> ""]]
    /\ sys = [s \in Sessions |-> NoSystem]
    /\ idx = [s \in Sessions |-> 0]
    /\ calls = [s \in Sessions |-> 0]
    /\ toolRet = [s \in Sessions |-> NoTool]
    /\ log = [s \in Sessions |-> <<>>]
    /\ result = [s \in Sessions |-> NoText]
    /\ started = [s \in Sessions |-> NoStamp]
    /\ stamp = [s \in Sessions |-> NoStamp]
    /\ fname = [s \in Sessions |-> NoPath]
    /\ opened = [s \in Sessions |-> FALSE]
    /\ ret = [s \in Sessions |-> NoPath]
    /\ raised = [s \in Sessions |-> 0]

shared == <<env, now, files, saved, runs>>

\* The locals of main() and generate_proposal are gone when the script run
\* ends.  What the run did to the outside (opened, ret, raised) is kept until
\* the session's next script run.
Discard(s) ==
    /\ form' = [form EXCEPT ![s] = NoForm]
    /\ sys' = [sys EXCEPT ![s] = NoSystem]
    /\ idx' = [idx EXCEPT ![s] = 0]
    /\ calls' = [calls EXCEPT ![s] = 0]
    /\ toolRet' = [toolRet EXCEPT ![s] = NoTool]
    /\ result' = [result EXCEPT ![s] = NoText]
    /\ started' = [started EXCEPT ![s] = NoStamp]
    /\ stamp' = [stamp EXCEPT ![s] = NoStamp]
    /\ fname' = [fname EXCEPT ![s] = NoPath]
    /\ log' = [log EXCEPT ![s] = <<>>]

\* except Exception as e (lines 327-329): both st.error messages are shown
\* and the script run ends.
Caught(s, e) ==
    /\ ui' = [ui EXCEPT ![s] = [kind |-> "An error occurred", button |-> "enabled", msg |-> e]]
    /\ pc' = [pc EXCEPT ![s] = "idle"]
    /\ Discard(s)

\* An exception raised outside the try block ends the script run; Streamlit
\* shows its own exception box.
Uncaught(s, e) ==
    /\ ui' = [ui EXCEPT ![s] = [kind |-> "uncaught exception", button |-> "enabled", msg |-> e]]
    /\ pc' = [pc EXCEPT ![s] = "idle"]
    /\ Discard(s)

---------------------------------------------------------------------------
(* main(): one script run of a session *)

\* Lines 240-283: the page is drawn with the widget values of this script
\* run; the button is disabled when a key is missing.  The run goes on only
\* for a click on the enabled button with a company name.  (MaxRuns bounds
\* the number of runs triggered.)
Rerun(s, keys, company, click) ==
    /\ pc[s] = "idle"
    /\ runs < MaxRuns
    /\ raised' = [raised EXCEPT ![s] = 0]
    /\ opened' = [opened EXCEPT ![s] = FALSE]
    /\ ret' = [ret EXCEPT ![s] = NoPath]
    /\ LET api_keys_valid == ApiKeysValid(keys)
           pressed == Button(click, ~api_keys_valid)
       IN  \/ /\ ~pressed
              /\ ui' = [ui EXCEPT ![s] =
                          [kind |-> IF api_keys_valid THEN "form"
                                    ELSE "Please provide all required API keys",
                           button |-> IF api_keys_valid THEN "enabled" ELSE "disabled",
                           msg |-> ""]]
              /\ UNCHANGED <<pc, form, started, runs>>
           \/ /\ pressed
              /\ company = <<>>
              /\ ui' = [ui EXCEPT ![s] =
                          [kind |-> "Please enter a company name", button |-> "enabled", msg |-> ""]]
              /\ UNCHANGED <<pc, form, started, runs>>
           \/ /\ pressed
              /\ company # <<>>
              /\ runs' = runs + 1
              /\ form' = [form EXCEPT ![s] = [keys |-> keys, company |-> company]]
              /\ started' = [started EXCEPT ![s] = now]
              /\ ui' = [ui EXCEPT ![s] = [kind |-> "running", button |-> "enabled", msg |-> ""]]
              /\ pc' = [pc EXCEPT ![s] = "environ"]
    /\ UNCHANGED <<env, now, files, saved, sys, idx, calls, toolRet, log, result,
                   stamp, fname>>

\* Lines 286-288: the three assignments to os.environ, taken as one step.
SetEnviron(s) ==
    /\ pc[s] = "environ"
    /\ env' = [env EXCEPT !["OPENAI_API_KEY"] = form[s].keys.openai,
                          !["TAVILY_API_KEY"] = form[s].keys.tavily,
                          !["KAGGLE_API_TOKEN"] = form[s].keys.kaggle]
    /\ pc' = [pc EXCEPT ![s] = "construct"]
    /\ UNCHANGED <<now, files, saved, runs, form, ui, sys, idx, calls, toolRet,
                   log, result, started, stamp, fname, opened, ret, raised>>

\* Lines 290, 197-204, 19-20: AIProposalSystem() builds the chat model and
\* the search client with the keys it reads from the environment; a
\* constructor may raise, and line 290 is outside the try block.
Construct(s) ==
    /\ pc[s] = "construct"
    /\ \/ /\ sys' = [sys EXCEPT ![s] = [llm |-> Getenv("OPENAI_API_KEY"),
                                        tavily |-> Getenv("TAVILY_API_KEY")]]
          /\ pc' = [pc EXCEPT ![s] = "try"]
          /\ UNCHANGED <<form, ui, idx, calls, toolRet, result, started, stamp,
                         fname, log>>
       \/ Uncaught(s, "construct")
    /\ UNCHANGED <<env, now, files, saved, runs, opened, ret, raised>>

---------------------------------------------------------------------------
(* AIProposalSystem.generate_proposal *)

\* Lines 292-227: inside the try block the progress display is drawn, the
\* agents, the tasks and the crew are built, and crew.kickoff() starts the
\* first task of the list.
BeginKickoff(s) ==
    /\ pc[s] = "try"
    /\ idx' = [idx EXCEPT ![s] = 1]
    /\ log' = [log EXCEPT ![s] = <<[ev |-> "start", task |-> CrewTasks[1]]>>]
    /\ pc' = [pc EXCEPT ![s] = "kickoff"]
    /\ UNCHANGED <<env, now, files, saved, runs, form, ui, sys, calls, toolRet,
                   result, started, stamp, fname, opened, ret, raised>>

\* The call of one of the tools of the running task's agent.
Invoke(s, tool, q, outcome) ==
    CASE tool = "tavily"      -> tavily_search(sys[s].tavily, q, outcome)
      [] tool = "kaggle"      -> search_kaggle(q, outcome)
      [] tool = "huggingface" -> search_huggingface(q, outcome)

\* The agent of the running task calls one of its tools with a query; the
\* outbound call succeeds, fails in transport or fails in decoding.
ToolCall(s, tool, q, outcome) ==
    /\ pc[s] = "kickoff"
    /\ tool \in AgentTools(CrewTasks[idx[s]])
    /\ calls[s] < MaxToolCalls
    /\ calls' = [calls EXCEPT ![s] = @ + 1]
    /\ toolRet' = [toolRet EXCEPT ![s] =
                     [tool |-> tool, query |-> q, outcome |-> outcome,
                      ret |-> Invoke(s, tool, q, outcome)]]
    /\ UNCHANGED <<env, now, files, saved, runs, pc, form, ui, sys, idx, log,
                   result, started, stamp, fname, opened, ret, raised>>

\* The running task returns the model's text.  The sequential process goes on
\* to the next task of the list; after the last one kickoff returns its
\* output (line 227).
TaskReturn(s, text) ==
    /\ pc[s] = "kickoff"
    /\ text \in ModelTexts(CrewTasks[idx[s]])
    /\ calls' = [calls EXCEPT ![s] = 0]
    /\ toolRet' = [toolRet EXCEPT ![s] = NoTool]
    /\ LET ended == Append(log[s], [ev |-> "end", task |-> CrewTasks[idx[s]], out |-> text])
       IN  IF idx[s] < Len(CrewTasks)
           THEN /\ idx' = [idx EXCEPT ![s] = @ + 1]
                /\ log' = [log EXCEPT ![s] =
                            Append(ended, [ev |-> "start", task |-> CrewTasks[idx[s] + 1]])]
                /\ UNCHANGED <<pc, result>>
           ELSE /\ log' = [log EXCEPT ![s] = ended]
                /\ result' = [result EXCEPT ![s] = text]
                /\ pc' = [pc EXCEPT ![s] = "timestamp"]
                /\ UNCHANGED idx
    /\ UNCHANGED <<env, now, files, saved, runs, form, ui, sys, started, stamp,
                   fname, opened, ret, raised>>

\* Variant: generate_proposal swallows the exception of a task and goes on
\* to save what it has.
OnTaskExceptionSwallowed(s) ==
    /\ pc' = [pc EXCEPT ![s] = "timestamp"]
    /\ UNCHANGED <<env, now, files, saved, runs, form, ui, sys, idx, calls, toolRet,
                   log, result, started, stamp, fname, opened, ret>>

\* An exception of the running task is not handled in kickoff nor in
\* generate_proposal (line 227): it reaches the handler of main().
OnTaskException(s) ==
    /\ Caught(s, "task")
    /\ UNCHANGED <<env, now, files, saved, runs, opened, ret>>

\* The model call of the running task fails.
TaskRaise(s) ==
    /\ pc[s] = "kickoff"
    /\ raised' = [raised EXCEPT ![s] = idx[s]]
    /\ OnTaskException(s)

\* Lines 230-231: the clock is read and the filename computed.
Timestamp(s) ==
    /\ pc[s] = "timestamp"
    /\ stamp' = [stamp EXCEPT ![s] = now]
    /\ fname' = [fname EXCEPT ![s] = Filename(form[s].company, Strftime(now))]
    /\ pc' = [pc EXCEPT ![s] = "open"]
    /\ UNCHANGED <<env, now, files, saved, runs, form, ui, sys, idx, calls,
                   toolRet, log, result, started, opened, ret, raised>>

\* Line 233: open(filename, "w") creates or truncates the file, or raises.
OpenFile(s) ==
    /\ pc[s] = "open"
    /\ \/ /\ files' = Truncated(fname[s])
          /\ opened' = [opened EXCEPT ![s] = TRUE]
          /\ pc' = [pc EXCEPT ![s] = "write"]
          /\ UNCHANGED <<form, ui, sys, idx, calls, toolRet, result, started, stamp,
                         fname, log>>
       \/ /\ Caught(s, "open")
          /\ UNCHANGED <<files, opened>>
    /\ UNCHANGED <<env, now, saved, runs, ret, raised>>

\* Lines 234-236: the text is written, the file closed and its name returned
\* to main(); or the write raises and the file stays as it is.
WriteFile(s) ==
    /\ pc[s] = "write"
    /\ \/ /\ files' = [files EXCEPT ![fname[s]] = Overlay(result[s], @)]
          /\ ret' = [ret EXCEPT ![s] = fname[s]]
          /\ saved' = saved \cup {[company |-> form[s].company, started |-> started[s],
                                   stamp |-> stamp[s], path |-> fname[s]]}
          /\ pc' = [pc EXCEPT ![s] = "readback"]
          /\ UNCHANGED <<form, ui, sys, idx, calls, toolRet, result, started, stamp,
                         fname, log>>
       \/ /\ Caught(s, "write")
          /\ UNCHANGED <<files, saved, ret>>
    /\ UNCHANGED <<env, now, runs, opened, raised>>

\* Lines 313-325: the file is read back and shown; the script run ends.
ReadBack(s) ==
    /\ pc[s] = "readback"
    /\ \/ /\ ui' = [ui EXCEPT ![s] = [kind |-> "proposal", button |-> "enabled", msg |-> files[ret[s]]]]
          /\ pc' = [pc EXCEPT ![s] = "idle"]
          /\ Discard(s)
       \/ Caught(s, "read")
    /\ UNCHANGED <<env, now, files, saved, runs, opened, ret, raised>>

\* A second of the wall clock passes.
Tick ==
    /\ now < MaxClock
    /\ now' = now + 1
    /\ UNCHANGED <<env, files, saved, runs, pc, form, ui, sys, idx, calls,
                   toolRet, log, result, started, stamp, fname, opened, ret, raised>>

TaskOutputs == {<<"R">>, <<"M">>, <<"Res">>, <<"P1">>, <<"P2", "P3">>}
ToolNames == {"tavily", "kaggle", "huggingface"}

\* The server: the script threads of the sessions interleave.
Next ==
    \/ \E s \in Sessions, keys \in KeyInputs, company \in Companies, click \in BOOLEAN :
          Rerun(s, keys, company, click)
    \/ \E s \in Sessions : SetEnviron(s)
    \/ \E s \in Sessions : Construct(s)
    \/ \E s \in Sessions : BeginKickoff(s)
    \/ \E s \in Sessions, tool \in ToolNames, q \in Queries, outcome \in Outcomes :
          ToolCall(s, tool, q, outcome)
    \/ \E s \in Sessions, text \in TaskOutputs : TaskReturn(s, text)
    \/ \E s \in Sessions : TaskRaise(s)
    \/ \E s \in Sessions : Timestamp(s)
    \/ \E s \in Sessions : OpenFile(s)
    \/ \E s \in Sessions : WriteFile(s)
    \/ \E s \in Sessions : ReadBack(s)
    \/ Tick

Spec == Init /\ [][Next]_vars

\* The server with a single browser session: one script thread, one run at a
\* time.
Solo == {"s1"}

NextSolo ==
    \/ \E s \in Solo, keys \in KeyInputs, company \in Companies, click \in BOOLEAN :
          Rerun(s, keys, company, click)
    \/ \E s \in Solo : SetEnviron(s)
    \/ \E s \in Solo : Construct(s)
    \/ \E s \in Solo : BeginKickoff(s)
    \/ \E s \in Solo, tool \in ToolNames, q \in Queries, outcome \in Outcomes :
          ToolCall(s, tool, q, outcome)
    \/ \E s \in Solo, text \in TaskOutputs : TaskReturn(s, text)
    \/ \E s \in Solo : TaskRaise(s)
    \/ \E s \in Solo : Timestamp(s)
    \/ \E s \in Solo : OpenFile(s)
    \/ \E s \in Solo : WriteFile(s)
    \/ \E s \in Solo : ReadBack(s)
    \/ Tick

SpecSolo == Init /\ [][NextSolo]_vars

---------------------------------------------------------------------------
(* Properties *)

SavePcs == {"timestamp", "open", "write", "readback"}
Warning == "Please provide all required API keys"

\* C1: in every run of generate_proposal the events of the tasks are, in
\* this order, start and end of research, of market analysis, of resource
\* discovery and of the proposal: a task starts only after the one before it
\* has ended, none is skipped or repeated, and a run that has left kickoff
\* has executed all four.
C1_TasksInFixedOrder ==
    \A s \in Sessions :
        /\ Len(log[s]) <= 8
        /\ \A k \in 1..Len(log[s]) :
              /\ log[s][k].ev = (IF k % 2 = 1 THEN "start" ELSE "end")
              /\ log[s][k].task =
                    <<"research", "market", "resource", "proposal">>[(k + 1) \div 2]
        /\ pc[s] = "kickoff" => Len(log[s]) % 2 = 1
        /\ pc[s] \in SavePcs => Len(log[s]) = 8

C1_Witness == \E s \in Sessions : pc[s] = "timestamp" /\ Len(log[s]) = 8

\* C3: once a task of a run has raised, the run is over: the session
\* executes no further stage, the run has opened no file, generate_proposal
\* has returned no path, and the caller has received the failure.
C3_StageFailureAborts ==
    \A s \in Sessions :
        raised[s] # 0 =>
            /\ pc[s] = "idle"
            /\ ~opened[s]
            /\ ret[s] = NoPath
            /\ ui[s].kind = "An error occurred"

C3_Witness == \E s \in Sessions : raised[s] = 2 /\ pc[s] = "idle"

\* The prefix of the error string of each search operation.
ErrorPrefix(tool) ==
    CASE tool = "tavily"      -> "Error performing search: "
      [] tool = "kaggle"      -> "Error searching Kaggle: "
      [] tool = "huggingface" -> "Error searching HuggingFace: "

\* C4 (amended): a search operation whose outbound call or decoding fails
\* does not raise; it returns its own error prefix followed by the message:
\* "Error performing search: " for the web search, "Error searching Kaggle: "
\* and "Error searching HuggingFace: " for the dataset searches.
C4_ToolFailureReturnsOwnErrorString ==
    \A s \in Sessions :
        (toolRet[s].tool # "none" /\ toolRet[s].outcome # "ok") =>
            /\ ~toolRet[s].ret.raised
            /\ toolRet[s].ret.value =
                  <<ErrorPrefix(toolRet[s].tool),
                    IF toolRet[s].outcome = "transport" THEN "connection failed"
                    ELSE "invalid JSON">>

\* C4 as stated: every one of the three operations returns
\* "Error performing search: <message>".
C4_ToolFailureReturnsErrorPerformingSearch ==
    \A s \in Sessions :
        (toolRet[s].tool # "none" /\ toolRet[s].outcome # "ok") =>
            /\ ~toolRet[s].ret.raised
            /\ toolRet[s].ret.value[1] = "Error performing search: "

C4_Witness ==
    \E s \in Sessions : toolRet[s].tool = "kaggle" /\ toolRet[s].outcome = "decode"

\* C5: when generate_proposal returns a path, the file at that path holds
\* exactly the output of the proposal task of that run, and the path is
\* ai_proposal_<company>_<timestamp>.md.
C5_ReturnedFileIsFinalOutput ==
    [][\A s \in Sessions :
          (pc[s] = "write" /\ pc'[s] = "readback") =>
              /\ ret'[s] = <<"ai_proposal_">> \o form[s].company \o <<"_">>
                               \o Strftime(stamp[s]) \o <<".md">>
              /\ files'[ret'[s]] = log[s][8].out]_vars

\* C6 (amended): two runs for the same company whose filenames were computed
\* at different seconds of the wall clock return distinct paths, and two runs
\* for different companies whose filenames were computed in the same second
\* return distinct paths.
C6_DistinctPathsBySaveSecond ==
    \A r1, r2 \in saved :
        /\ (r1.company = r2.company /\ r1.stamp # r2.stamp) => r1.path # r2.path
        /\ (r1.company # r2.company /\ r1.stamp = r2.stamp) => r1.path # r2.path

\* C6 as stated: two runs for the same company started in different seconds
\* return distinct paths.
C6_DistinctPathsByStartSecond ==
    \A r1, r2 \in saved :
        /\ (r1.company = r2.company /\ r1.started # r2.started) => r1.path # r2.path
        /\ (r1.company # r2.company /\ r1.stamp = r2.stamp) => r1.path # r2.path

C6_Witness ==
    \E r1, r2 \in saved : r1.company = r2.company /\ r1.stamp # r2.stamp

\* C7: the file a run has returned is never changed afterwards.
C7_SavedFilesNeverChange ==
    [][\A r \in saved : files'[r.path] = files[r.path]]_vars

\* C8: a script run goes past the button only with three non-empty
\* credentials; when the page shows the button disabled the session is idle,
\* holds no orchestrator, has executed no stage, made no tool call and opened
\* no file.
C8_MissingCredentialBlocksRun ==
    \A s \in Sessions :
        /\ pc[s] # "idle" =>
              /\ form[s].keys.openai # ""
              /\ form[s].keys.tavily # ""
              /\ form[s].keys.kaggle # ""
        /\ ui[s].button = "disabled" =>
              /\ pc[s] = "idle"
              /\ sys[s] = NoSystem
              /\ idx[s] = 0
              /\ log[s] = <<>>
              /\ toolRet[s] = NoTool
              /\ ~opened[s]
              /\ ret[s] = NoPath

C8_Witness ==
    \E s \in Sessions : ui[s].kind = Warning /\ ui[s].button = "disabled"

\* C9: no failure of a triggered run escapes the handler of main().
C9_EveryFailureIsCaught ==
    \A s \in Sessions : ui[s].kind # "uncaught exception"

\* C10: the credentials a run uses are those of the form that triggered it.
C10_CredentialsOfOwnForm ==
    \A s \in Sessions :
        /\ sys[s] # NoSystem =>
              /\ sys[s].llm = form[s].keys.openai
              /\ sys[s].tavily = form[s].keys.tavily
        /\ toolRet[s].tool = "kaggle" => toolRet[s].ret.token = form[s].keys.kaggle

=============================================================================
